---- MODULE Spec2Model ----
(***************************************************************************)
(* The Scroll Vault's write paths (src/crud.py, src/main.py, src/db.py,    *)
(* src/models.py) as a state machine: the two tables of the relational     *)
(* store, and one request session per concurrent HTTP call, each stepping  *)
(* through its handler one store round trip at a time.                     *)
(***************************************************************************)
EXTENDS Integers, Sequences, FiniteSets, TLC

\* ---------------------------------------------------------------- bounds
NumSessions == 2          \* concurrent request slots
MaxCalls == 2             \* calls made in one behaviour, all sessions together
MaxBulk == 2              \* longest list submitted to the bulk endpoint

Sessions == 1..NumSessions

\* ------------------------------------------------------- wire documents
\* A JSON object is the sequence of its <<key, value>> pairs in the order the
\* client wrote them (a Python dict keeps insertion order).  The three aliased
\* keys of models.py (psi_self, sigma_echo, xi) are written here in ASCII:
\* "PSI_self", "SIGMA_echo", "XI" stand for the Greek-letter aliases.

\* The value stored under key k of the JSON object doc
Get(doc, k) == LET i == CHOOSE j \in 1..Len(doc) : doc[j][1] = k IN doc[i][2]

\* Python dict equality: the same keys with the same values, in any order
DocEq(d1, d2) == {d1[i] : i \in 1..Len(d1)} = {d2[i] : i \in 1..Len(d2)}

PsiAB == << <<"a", 1>>, <<"b", 2>> >>
PsiBA == << <<"b", 2>>, <<"a", 1>> >>
EchoEmpty == << >>
EchoE == << <<"e", 1>> >>

\* A request body in the field order of the class MemoryCycleCreate
Body(sig, t, psi) ==
    << <<"t", t>>, <<"signifier", sig>>, <<"PSI_self", psi>>,
       <<"SIGMA_echo", EchoEmpty>>, <<"glyphstream", <<"a">> >>,
       <<"ache", 20>>, <<"drift", 10>>, <<"entropy", 5>>, <<"XI", FALSE>> >>

\* The same JSON object with its top-level keys written in reverse order
Reversed(doc) == [i \in 1..Len(doc) |-> doc[Len(doc) + 1 - i]]

\* The request bodies the clients submit, by name
BodyNames == {"A", "A_top", "A_nested", "A2", "B"}
BodyOf(n) ==
    CASE n = "A"        -> Body("alpha", 1, PsiAB)
      [] n = "A_top"    -> Reversed(Body("alpha", 1, PsiAB))
      [] n = "A_nested" -> Body("alpha", 1, PsiBA)
      [] n = "A2"       -> Body("alpha", 2, PsiAB)
      [] n = "B"        -> Body("beta", 1, PsiAB)

\* Pydantic validation of a body: the fields in declaration order, whatever
\* the order of the keys in the body; the nested documents are kept as sent
MemoryCycleCreate(body) ==
    [t |-> Get(body, "t"), signifier |-> Get(body, "signifier"),
     psi_self |-> Get(body, "PSI_self"), sigma_echo |-> Get(body, "SIGMA_echo"),
     glyphstream |-> Get(body, "glyphstream"), ache |-> Get(body, "ache"),
     drift |-> Get(body, "drift"), entropy |-> Get(body, "entropy"),
     xi |-> Get(body, "XI")]

\* Two validated submissions with the same logical field values
SameLogical(m1, m2) ==
    /\ m1.t = m2.t /\ m1.signifier = m2.signifier
    /\ DocEq(m1.psi_self, m2.psi_self) /\ DocEq(m1.sigma_echo, m2.sigma_echo)
    /\ m1.glyphstream = m2.glyphstream /\ m1.ache = m2.ache
    /\ m1.drift = m2.drift /\ m1.entropy = m2.entropy /\ m1.xi = m2.xi

\* ---------------------------------------------------------------- hashing
\* str() of a nested dict: its items in insertion order
RECURSIVE StrDoc(_)
StrDoc(doc) ==
    IF doc = << >> THEN << >>
    ELSE <<doc[1][1], ToString(doc[1][2])>> \o StrDoc(Tail(doc))

\* memory.dict(by_alias=True) followed by the three pop-and-reinsert renames:
\* the renamed keys move to the end of the dict
RenamedData(m) ==
    << <<"t", <<ToString(m.t)>> >>, <<"signifier", <<m.signifier>> >>,
       <<"glyphstream", m.glyphstream>>, <<"ache", <<ToString(m.ache)>> >>,
       <<"drift", <<ToString(m.drift)>> >>, <<"entropy", <<ToString(m.entropy)>> >>,
       <<"psi_self", StrDoc(m.psi_self)>>, <<"sigma_echo", StrDoc(m.sigma_echo)>>,
       <<"xi", <<ToString(m.xi)>> >> >>

\* str(data): the keys and the text of the values, in the dict's order
RECURSIVE StrData(_)
StrData(data) ==
    IF data = << >> THEN << >>
    ELSE <<data[1][1]>> \o data[1][2] \o StrData(Tail(data))

\* SHA-256 of str(data).  The digest is modelled as the text it is taken of:
\* equal texts give equal digests and, within the bounds, different texts
\* give different digests.
compute_cycle_hash(data) == StrData(data)


\* ------------------------------------------------------------------ state
VARIABLES
    memory_cycles,      \* table memory_cycles: the rows in id order (row i has id i)
    provenance_logs,    \* table provenance_logs: the rows in commit order
    now,                \* the store's clock, read by func.now(); it advances
                        \* with every write to memory_cycles
    ses,                \* per request slot: the handler's position and its locals
    hist                \* the calls that have ended, in the order they ended:
                        \* what was asked and what the client was answered

vars == <<memory_cycles, provenance_logs, now, ses, hist>>

Idle == [pc |-> "idle"]

\* The address the transport reports for the client of slot p
ClientHost(p) == <<"10.0.0", p>>

\* init_db creates both tables empty; no request is being served
Init ==
    /\ memory_cycles = << >>
    /\ provenance_logs = << >>
    /\ now = 1
    /\ ses = [p \in Sessions |-> Idle]
    /\ hist = << >>

\* Calls begun so far, ended or still being served
CallsMade == Len(hist) + Cardinality({p \in Sessions : ses[p].pc # "idle"})

\* ------------------------------------------------------------ store access
\* query(MemoryCycleDB).filter(cycle_hash == h).first(): the row's id, 0 for None
get_memory_by_hash(h) ==
    LET S == {i \in DOMAIN memory_cycles : memory_cycles[i].cycle_hash = h}
    IN  IF S = {} THEN 0 ELSE CHOOSE i \in S : \A j \in S : i <= j

\* query(MemoryCycleDB).filter(signifier == s).first(): the row's id, 0 for None
get_memory_by_signifier(s) ==
    LET S == {i \in DOMAIN memory_cycles : memory_cycles[i].signifier = s}
    IN  IF S = {} THEN 0 ELSE CHOOSE i \in S : \A j \in S : i <= j

\* (mutant) signifier is declared without unique=True
UniqueViolation_HashOnly(table, row) ==
    \E i \in DOMAIN table : table[i].cycle_hash = row.cycle_hash

\* The unique=True columns of memory_cycles: inserting row into table raises
\* IntegrityError when its signifier or its cycle_hash is already present
UniqueViolation(table, row) ==
    \E i \in DOMAIN table :
        \/ table[i].signifier = row.signifier
        \/ table[i].cycle_hash = row.cycle_hash

\* MemoryCycleDB(**data, cycle_hash=cycle_hash) as inserted into table: the id
\* is the next one, both timestamps are the server default func.now()
MemoryCycleDB(table, m, h) ==
    [id |-> Len(table) + 1, signifier |-> m.signifier, t |-> m.t,
     psi_self |-> m.psi_self, sigma_echo |-> m.sigma_echo,
     glyphstream |-> m.glyphstream, ache |-> m.ache, drift |-> m.drift,
     entropy |-> m.entropy, xi |-> m.xi, cycle_hash |-> h,
     created_at |-> now, updated_at |-> now]

\* (mutant) the event argument is left out, so the column default applies
ProvenanceLogDB_DefaultEvent(memory_id, p, h, sig, event) ==
    [memory_id |-> memory_id, source_ip |-> ClientHost(p), node_id |-> "None",
     cycle_hash |-> h, signifier |-> sig, event |-> "ingest"]

\* ProvenanceLogDB(...) as inserted.  The row's place in provenance_logs
\* stands for its id and for its received_at (rows are kept in commit order).
ProvenanceLogDB(memory_id, p, h, sig, event) ==
    [memory_id |-> memory_id, source_ip |-> ClientHost(p), node_id |-> "None",
     cycle_hash |-> h, signifier |-> sig, event |-> event]

\* The call of slot p ends: the response (or the error) goes to the client
\* and the request's session is closed
Return(p, outcome) ==
    /\ ses' = [ses EXCEPT ![p] = Idle]
    /\ hist' = Append(hist, outcome)

\* ----------------------------------------------------------------- ingest
\* The stored row that already has the hash h or, failing that, the signifier
\* of the submission m when its call arrives: its id, 0 when there is none.
\* The handler does not compute it; it is kept to state what a call was given.
Matching(m, h) ==
    IF get_memory_by_hash(h) # 0 THEN get_memory_by_hash(h)
    ELSE get_memory_by_signifier(m.signifier)

\* POST /memory/ingest arrives: validation, the renames, the hash, and the
\* first statement, existing_by_hash = ...first()
IngestByHash(p, n) ==
    /\ ses[p].pc = "idle"
    /\ CallsMade < MaxCalls
    /\ LET m == MemoryCycleCreate(BodyOf(n))
           h == compute_cycle_hash(RenamedData(m))
       IN  ses' = [ses EXCEPT ![p] =
                     [pc |-> "by_signifier", kind |-> "ingest", memory |-> m,
                      cycle_hash |-> h,
                      existing_by_hash |-> get_memory_by_hash(h),
                      existing_by_signifier |-> 0,
                      db_memory |-> 0, begun |-> Len(hist),
                      matched |-> Matching(m, h)]]
    /\ UNCHANGED <<memory_cycles, provenance_logs, now, hist>>

\* (mutant) the branch looks at existing_by_hash alone
IngestBySignifier_HashOnly(p) ==
    /\ ses[p].pc = "by_signifier"
    /\ LET found == get_memory_by_signifier(ses[p].memory.signifier) IN
       ses' = [ses EXCEPT ![p].existing_by_signifier = found,
                          ![p].pc = IF ses[p].existing_by_hash # 0
                                    THEN "dup_log" ELSE "insert"]
    /\ UNCHANGED <<memory_cycles, provenance_logs, now, hist>>

\* existing_by_signifier = ...first(), then the branch on the two lookups
IngestBySignifier(p) ==
    /\ ses[p].pc = "by_signifier"
    /\ LET found == get_memory_by_signifier(ses[p].memory.signifier) IN
       ses' = [ses EXCEPT ![p].existing_by_signifier = found,
                          ![p].pc = IF ses[p].existing_by_hash # 0 \/ found # 0
                                    THEN "dup_log" ELSE "insert"]
    /\ UNCHANGED <<memory_cycles, provenance_logs, now, hist>>

\* existing = existing_by_hash or existing_by_signifier
Existing(s) ==
    IF s.existing_by_hash # 0 THEN s.existing_by_hash ELSE s.existing_by_signifier

\* What ingest_scroll answers: the fields are read from the (reloaded) row
IngestOutcome(p, status, id) ==
    [kind |-> "ingest", status |-> status, begun |-> ses[p].begun,
     memory |-> ses[p].memory, matched |-> ses[p].matched, memory_id |-> id,
     cycle_hash |-> memory_cycles[id].cycle_hash]

\* An error leaves the handler: get_db rolls the session back and re-raises
ErrorOutcome(p, status) ==
    IF ses[p].kind = "ingest"
    THEN [kind |-> "ingest", status |-> status, begun |-> ses[p].begun,
          memory |-> ses[p].memory, matched |-> ses[p].matched,
          memory_id |-> ses[p].db_memory, cycle_hash |-> << >>]
    ELSE [kind |-> ses[p].kind, status |-> status, begun |-> ses[p].begun]

\* (mutant) the duplicate branch keeps one log row per record: it rewrites the
\* record's latest row when there is one
IngestDupLog_Rewrite(p) ==
    /\ ses[p].pc = "dup_log"
    /\ LET e == Existing(ses[p])
           row == ProvenanceLogDB(e, p, ses[p].cycle_hash, memory_cycles[e].signifier,
                                  "duplicate_ingest")
           old == {k \in DOMAIN provenance_logs : provenance_logs[k].memory_id = e}
       IN
       /\ provenance_logs' =
              IF old = {} THEN Append(provenance_logs, row)
              ELSE [provenance_logs EXCEPT
                      ![CHOOSE k \in old : \A l \in old : l <= k] = row]
       /\ Return(p, IngestOutcome(p, "duplicate", e))
    /\ UNCHANGED <<memory_cycles, now>>

\* The duplicate branch: the log row is added and committed, (existing, False)
IngestDupLog(p) ==
    /\ ses[p].pc = "dup_log"
    /\ LET e == Existing(ses[p]) IN
       /\ provenance_logs' = Append(provenance_logs,
              ProvenanceLogDB(e, p, ses[p].cycle_hash, memory_cycles[e].signifier,
                              "duplicate_ingest"))
       /\ Return(p, IngestOutcome(p, "duplicate", e))
    /\ UNCHANGED <<memory_cycles, now>>

\* The create branch, first commit: the record row.  A row with the same
\* signifier or hash committed meanwhile makes the commit raise IntegrityError,
\* which nothing in ingest_memory_cycle or ingest_scroll catches.
IngestInsert(p) ==
    /\ ses[p].pc = "insert"
    /\ LET row == MemoryCycleDB(memory_cycles, ses[p].memory, ses[p].cycle_hash) IN
       IF UniqueViolation(memory_cycles, row)
       THEN /\ Return(p, ErrorOutcome(p, "integrity_error"))
            /\ UNCHANGED <<memory_cycles, provenance_logs, now>>
       ELSE /\ memory_cycles' = Append(memory_cycles, row)
            /\ ses' = [ses EXCEPT ![p].db_memory = row.id, ![p].pc = "ingest_log"]
            /\ now' = now + 1
            /\ UNCHANGED <<provenance_logs, hist>>

\* The create branch, second commit: the log row, then (db_memory, True)
IngestLog(p) ==
    /\ ses[p].pc = "ingest_log"
    /\ LET id == ses[p].db_memory IN
       /\ provenance_logs' = Append(provenance_logs,
              ProvenanceLogDB(id, p, ses[p].cycle_hash, memory_cycles[id].signifier,
                              "ingest"))
       /\ Return(p, IngestOutcome(p, "created", id))
    /\ UNCHANGED <<memory_cycles, now>>

\* The store is unreachable at the next round trip of slot p: the statement
\* raises an SQLAlchemyError, get_db rolls back what is not committed and
\* re-raises; what earlier commits of the call wrote stays.  (An outage at the
\* first statement of a call writes nothing, as an outage at its second
\* statement does for ingest and patch, and at the commit of a direct
\* creation.)
StoreUnavailable(p) ==
    /\ ses[p].pc # "idle"
    /\ Return(p, ErrorOutcome(p, "store_unavailable"))
    /\ UNCHANGED <<memory_cycles, provenance_logs, now>>

\* ---------------------------------------------------------- direct create
\* The bodies sent to the direct endpoint
CreateBodyNames == {"A", "A2", "B"}

\* (mutant) the direct path hashes memory.dict(by_alias=True) as it is,
\* before the renames
store_memory_AliasHash(p, n) ==
    /\ ses[p].pc = "idle"
    /\ CallsMade < MaxCalls
    /\ LET m == MemoryCycleCreate(BodyOf(n))
           data == << <<"t", <<ToString(m.t)>> >>, <<"signifier", <<m.signifier>> >>,
                      <<"PSI_self", StrDoc(m.psi_self)>>,
                      <<"SIGMA_echo", StrDoc(m.sigma_echo)>>,
                      <<"glyphstream", m.glyphstream>>, <<"ache", <<ToString(m.ache)>> >>,
                      <<"drift", <<ToString(m.drift)>> >>,
                      <<"entropy", <<ToString(m.entropy)>> >>,
                      <<"XI", <<ToString(m.xi)>> >> >>
       IN
       ses' = [ses EXCEPT ![p] =
                 [pc |-> "create_commit", kind |-> "create", memory |-> m,
                  cycle_hash |-> compute_cycle_hash(data),
                  begun |-> Len(hist)]]
    /\ UNCHANGED <<memory_cycles, provenance_logs, now, hist>>

\* POST /memory arrives: the body is validated and create_memory_cycle is
\* entered, where the renames and the hash are computed before the store is
\* touched
store_memory(p, n) ==
    /\ ses[p].pc = "idle"
    /\ CallsMade < MaxCalls
    /\ LET m == MemoryCycleCreate(BodyOf(n)) IN
       ses' = [ses EXCEPT ![p] =
                 [pc |-> "create_commit", kind |-> "create", memory |-> m,
                  cycle_hash |-> compute_cycle_hash(RenamedData(m)),
                  begun |-> Len(hist)]]
    /\ UNCHANGED <<memory_cycles, provenance_logs, now, hist>>

\* What the client of a direct creation is answered
CreateOutcome(p, status) ==
    [kind |-> "create", status |-> status, begun |-> ses[p].begun,
     signifier |-> ses[p].memory.signifier]

\* (mutant) the rejected INSERT is not rolled back: the row stays
create_memory_cycle_NoRollback(p) ==
    /\ ses[p].pc = "create_commit"
    /\ LET row == MemoryCycleDB(memory_cycles, ses[p].memory, ses[p].cycle_hash)
       IN  /\ memory_cycles' = Append(memory_cycles, row)
           /\ Return(p, CreateOutcome(p, IF UniqueViolation(memory_cycles, row)
                                         THEN "value_error" ELSE "stored"))
           /\ now' = now + 1
    /\ UNCHANGED provenance_logs

\* db.add, db.commit, db.refresh: the INSERT and its commit.  IntegrityError
\* becomes rollback and the ValueError that store_memory answers with
\* HTTP 400.
create_memory_cycle(p) ==
    /\ ses[p].pc = "create_commit"
    /\ LET row == MemoryCycleDB(memory_cycles, ses[p].memory, ses[p].cycle_hash)
       IN  IF UniqueViolation(memory_cycles, row)
           THEN /\ Return(p, CreateOutcome(p, "value_error"))
                /\ UNCHANGED <<memory_cycles, now>>
           ELSE /\ memory_cycles' = Append(memory_cycles, row)
                /\ Return(p, CreateOutcome(p, "stored"))
                /\ now' = now + 1
    /\ UNCHANGED provenance_logs

\* ------------------------------------------------------------ bulk create
\* The lists of at most MaxBulk bodies the bulk endpoint is sent
BulkBodyNames == {"A", "B"}
BulkLists == UNION {[1..k -> BulkBodyNames] : k \in 0..MaxBulk}

\* The loop of create_bulk_memory_cycles and the flush of its commit: the
\* rows are inserted one after the other into the table as it stands; the
\* result is <<table, ok>>, ok FALSE as soon as one insert raises
\* IntegrityError
RECURSIVE BulkInsert(_, _)
BulkInsert(table, names) ==
    IF names = << >> THEN <<table, TRUE>>
    ELSE LET m == MemoryCycleCreate(BodyOf(names[1]))
             row == MemoryCycleDB(table, m, compute_cycle_hash(RenamedData(m)))
         IN  IF UniqueViolation(table, row) THEN <<table, FALSE>>
             ELSE BulkInsert(Append(table, row), Tail(names))

\* POST /memory/bulk: one commit for the whole list; IntegrityError rolls
\* every row back and becomes the ValueError that store_bulk_memory answers
\* with HTTP 400
create_bulk_memory_cycles(p, names) ==
    /\ ses[p].pc = "idle"
    /\ CallsMade < MaxCalls
    /\ LET res == BulkInsert(memory_cycles, names) IN
       IF res[2]
       THEN /\ memory_cycles' = res[1]
            /\ hist' = Append(hist, [kind |-> "bulk", status |-> "stored",
                                     begun |-> Len(hist)])
            /\ now' = IF names = << >> THEN now ELSE now + 1
       ELSE /\ hist' = Append(hist, [kind |-> "bulk", status |-> "value_error",
                                     begun |-> Len(hist)])
            /\ UNCHANGED <<memory_cycles, now>>
    /\ UNCHANGED <<provenance_logs, ses>>

\* ------------------------------------------------------------------ patch
\* The MemoryCyclePatch bodies the clients send
Patches == {[sigma_echo |-> EchoE, xi |-> FALSE], [sigma_echo |-> EchoEmpty, xi |-> TRUE]}
Signifiers == {"alpha", "beta"}

\* PATCH /memory/{signifier} arrives: db_memory = get_memory_by_signifier(...);
\* None is answered with HTTP 404
PatchQuery(p, sig, patch) ==
    /\ ses[p].pc = "idle"
    /\ CallsMade < MaxCalls
    /\ LET id == get_memory_by_signifier(sig) IN
       IF id = 0
       THEN /\ hist' = Append(hist, [kind |-> "patch", status |-> "not_found",
                                     begun |-> Len(hist), signifier |-> sig])
            /\ UNCHANGED ses
       ELSE /\ ses' = [ses EXCEPT ![p] =
                         [pc |-> "patch_commit", kind |-> "patch", signifier |-> sig,
                          patch |-> patch, db_memory |-> id,
                          loaded |-> memory_cycles[id], begun |-> Len(hist)]]
            /\ UNCHANGED hist
    /\ UNCHANGED <<memory_cycles, provenance_logs, now>>

\* (mutant) the patch also recomputes the hash from the patched row
update_memory_cycle_Rehash(row, loaded, patch) ==
    LET new == [row EXCEPT !.sigma_echo = patch.sigma_echo, !.xi = patch.xi,
                           !.updated_at = now]
    IN  [new EXCEPT !.cycle_hash = compute_cycle_hash(RenamedData(new))]

\* The two assignments and db.commit(): the UPDATE names the attributes whose
\* new value differs from the loaded one, and onupdate sets updated_at; no
\* attribute changed, no UPDATE
update_memory_cycle(row, loaded, patch) ==
    LET echo == ~DocEq(patch.sigma_echo, loaded.sigma_echo)
        flag == patch.xi # loaded.xi
    IN  IF ~echo /\ ~flag THEN row
        ELSE [row EXCEPT !.sigma_echo = IF echo THEN patch.sigma_echo ELSE @,
                         !.xi = IF flag THEN patch.xi ELSE @,
                         !.updated_at = now]

PatchCommit(p) ==
    /\ ses[p].pc = "patch_commit"
    /\ LET id == ses[p].db_memory IN
       /\ memory_cycles' = [memory_cycles EXCEPT ![id] =
              update_memory_cycle(@, ses[p].loaded, ses[p].patch)]
       /\ now' = IF memory_cycles'[id] = memory_cycles[id] THEN now ELSE now + 1
       /\ Return(p, [kind |-> "patch", status |-> "updated", begun |-> ses[p].begun,
                     signifier |-> ses[p].signifier])
    /\ UNCHANGED provenance_logs

\* ------------------------------------------------------------------ reads
\* GET /memory/archive: one SELECT of every record, serialized into the
\* archive the client is sent; nothing is written.  The other read endpoints
\* (by signifier, by hash, latest, list, stats, query, search, provenance) are
\* one SELECT each in the same way.
export_memory_archive(p) ==
    /\ ses[p].pc = "idle"
    /\ CallsMade < MaxCalls
    /\ hist' = Append(hist, [kind |-> "export", status |-> "ok", begun |-> Len(hist)])
    /\ UNCHANGED <<memory_cycles, provenance_logs, now, ses>>

Next ==
    \E p \in Sessions :
        \/ \E n \in BodyNames : IngestByHash(p, n)
        \/ IngestBySignifier(p)
        \/ IngestDupLog(p)
        \/ IngestInsert(p)
        \/ IngestLog(p)
        \/ \E n \in CreateBodyNames : store_memory(p, n)
        \/ create_memory_cycle(p)
        \/ \E names \in BulkLists : create_bulk_memory_cycles(p, names)
        \/ \E sig \in Signifiers, patch \in Patches : PatchQuery(p, sig, patch)
        \/ PatchCommit(p)
        \/ export_memory_archive(p)
        \/ StoreUnavailable(p)

Spec == Init /\ [][Next]_vars

\* ---------------------------------------------------------------- claims
Quiet == \A p \in Sessions : ses[p].pc = "idle"

IngestCalls == {i \in DOMAIN hist : hist[i].kind = "ingest"}

\* The calls that ended in an answer rather than in a store outage
Answered(i) == hist[i].status # "store_unavailable"

\* Call j (ended after call i) began before call i ended
Overlapping(i, j) == i < j /\ hist[j].begun < i

\* The provenance rows that reference the record id, in commit order
LogsOf(id) == SelectSeq(provenance_logs, LAMBDA e : e.memory_id = id)

HashOf(m) == compute_cycle_hash(RenamedData(m))

\* C1 (as claimed): two ingest calls with identical content that ran
\* concurrently, the store being reachable throughout, both return created or
\* duplicate, never a constraint error; exactly one record with that content
\* exists and each of the two calls has its provenance row.
C1_ConcurrentIngestNeverErrors ==
    \A i, j \in IngestCalls :
        ( /\ Overlapping(i, j)
          /\ hist[i].memory = hist[j].memory
          /\ Answered(i) /\ Answered(j) )
        => /\ hist[i].status \in {"created", "duplicate"}
           /\ hist[j].status \in {"created", "duplicate"}
           /\ Cardinality({r \in DOMAIN memory_cycles :
                  memory_cycles[r].cycle_hash = HashOf(hist[i].memory)}) = 1
           /\ Len(SelectSeq(provenance_logs,
                  LAMBDA e : e.cycle_hash = HashOf(hist[i].memory))) >= 2

\* The records a call of ingest_memory_cycle inserted: by a call still being
\* served, or by a call that has ended
InsertedByIngest ==
    ( {ses[p].db_memory : p \in {q \in Sessions : ses[q].pc = "ingest_log"}}
      \cup {hist[i].memory_id : i \in {k \in IngestCalls : hist[k].status # "duplicate"}} )
    \ {0}

\* C2 (as claimed): in every committed state of the store each record that
\* ingest inserted has its `ingest` provenance row, and an ingest call that
\* failed has left no record behind.
C2_IngestIsOneUnitOfWork ==
    /\ \A id \in InsertedByIngest :
           \E k \in DOMAIN provenance_logs :
               /\ provenance_logs[k].memory_id = id
               /\ provenance_logs[k].event = "ingest"
    /\ \A i \in IngestCalls :
           hist[i].status \in {"store_unavailable", "integrity_error"}
           => hist[i].memory_id = 0

\* C3 (as claimed): once every call has been answered, the calls having all
\* been ingest calls served by a reachable store, there are as many
\* provenance rows as calls, and no more records than calls.
C3_OneProvenanceRowPerCall ==
    ( /\ Quiet
      /\ \A i \in DOMAIN hist : hist[i].kind = "ingest" /\ Answered(i) )
    => /\ Len(provenance_logs) = Len(hist)
       /\ Len(memory_cycles) <= Len(hist)

\* Call i was served with no other call under way: every other call ended
\* before it began or began after it ended
RanAlone(i) ==
    /\ \A k \in DOMAIN hist :
           /\ k < i => hist[i].begun >= k
           /\ k > i => hist[k].begun >= i
    /\ \A p \in Sessions : ses[p].pc # "idle" => ses[p].begun >= i

\* The stored row id is the submission m as inserted and never patched
AsSubmitted(id, m) ==
    LET r == memory_cycles[id] IN
    /\ r.signifier = m.signifier /\ r.t = m.t /\ r.psi_self = m.psi_self
    /\ r.sigma_echo = m.sigma_echo /\ r.glyphstream = m.glyphstream
    /\ r.ache = m.ache /\ r.drift = m.drift /\ r.entropy = m.entropy
    /\ r.xi = m.xi /\ r.cycle_hash = HashOf(m) /\ r.updated_at = r.created_at

\* Calls i and j are two ingest calls of the same logical record, one after
\* the other, each served alone and answered, no stored row having the
\* record's hash or signifier when call i arrived
SequentialPair(i, j) ==
    /\ i < j
    /\ SameLogical(hist[i].memory, hist[j].memory)
    /\ hist[i].matched = 0
    /\ RanAlone(i) /\ RanAlone(j)
    /\ Answered(i) /\ Answered(j)

\* C4: of two sequential ingest calls of the same logical record not yet in
\* the store, the first answers created and the second duplicate, with the
\* same cycleHash and the same record; and when the second follows the first
\* directly, right after it the stored record is still as the first call
\* inserted it and the record's provenance is exactly an `ingest` row followed
\* by a `duplicate_ingest` row.
C4_SecondIngestIsDuplicate ==
    \A i, j \in IngestCalls :
        SequentialPair(i, j)
        => /\ hist[i].status = "created"
           /\ hist[j].status = "duplicate"
           /\ hist[j].cycle_hash = hist[i].cycle_hash
           /\ hist[j].memory_id = hist[i].memory_id
           /\ (j = i + 1 /\ Len(hist) = j /\ Quiet)
              => /\ AsSubmitted(hist[i].memory_id, hist[i].memory)
                 /\ Len(LogsOf(hist[i].memory_id)) = 2
                 /\ LogsOf(hist[i].memory_id)[1].event = "ingest"
                 /\ LogsOf(hist[i].memory_id)[2].event = "duplicate_ingest"

\* C4 witness: such a pair has just been served, from two different addresses
C4_Witness ==
    \E i, j \in IngestCalls :
        /\ SequentialPair(i, j)
        /\ j = i + 1 /\ Len(hist) = j /\ Quiet
        /\ Len(LogsOf(hist[i].memory_id)) = 2
        /\ LogsOf(hist[i].memory_id)[1].source_ip # LogsOf(hist[i].memory_id)[2].source_ip

\* C5: in every state of the store, whatever calls of ingest, direct create,
\* bulk create and patch have been interleaved, no two stored records have
\* the same signifier and no two have the same cycleHash.
C5_KeysUnique ==
    \A a, b \in DOMAIN memory_cycles :
        a # b => /\ memory_cycles[a].signifier # memory_cycles[b].signifier
                 /\ memory_cycles[a].cycle_hash # memory_cycles[b].cycle_hash

\* C5 witness: two records are stored and an ingest call that had passed both
\* lookups was refused by the constraint
C5_Witness ==
    /\ Len(memory_cycles) = 2
    /\ \E i \in DOMAIN hist : hist[i].status = "integrity_error"

\* The rows of memory_cycles other than row id are the same before and after
\* the step, and row id differs at most in sigma_echo, xi and updated_at
OnlyPatched(id) ==
    /\ Len(memory_cycles') = Len(memory_cycles)
    /\ \A k \in DOMAIN memory_cycles : k # id => memory_cycles'[k] = memory_cycles[k]
    /\ memory_cycles'[id] =
           [memory_cycles[id] EXCEPT !.sigma_echo = memory_cycles'[id].sigma_echo,
                                     !.xi = memory_cycles'[id].xi,
                                     !.updated_at = memory_cycles'[id].updated_at]

\* The step ends a patch call with the given answer
PatchAnswered(status) ==
    /\ Len(hist') = Len(hist) + 1
    /\ hist'[Len(hist')].kind = "patch"
    /\ hist'[Len(hist')].status = status

\* C6: a step of a patch call on an existing record changes at most that
\* record's echoState, xi and updatedAt (its cycleHash, signifier, createdAt,
\* t, selfState, glyphstream and metrics stay, as does every other record)
\* and leaves the provenance table alone; a patch is answered not-found
\* exactly when no record has the signifier, and then changes nothing.
C6_PatchFrame ==
    [][ /\ \A p \in Sessions :
               (ses[p].pc = "patch_commit" /\ ses'[p] # ses[p])
               => /\ OnlyPatched(ses[p].db_memory)
                  /\ provenance_logs' = provenance_logs
        /\ PatchAnswered("updated")
               => get_memory_by_signifier(hist'[Len(hist')].signifier) # 0
        /\ PatchAnswered("not_found")
               => /\ get_memory_by_signifier(hist'[Len(hist')].signifier) = 0
                  /\ memory_cycles' = memory_cycles
                  /\ provenance_logs' = provenance_logs
      ]_vars

\* C6 witness: of two stored records one has been patched
C6_Witness ==
    /\ Len(memory_cycles) = 2
    /\ \E i \in DOMAIN hist : hist[i].kind = "patch" /\ hist[i].status = "updated"
    /\ \E k \in DOMAIN memory_cycles :
           memory_cycles[k].updated_at # memory_cycles[k].created_at

\* The ingest calls being served
Ingesting == {p \in Sessions : ses[p].pc # "idle" /\ ses[p].kind = "ingest"}

\* C7 (as claimed): two submissions with the same logical field values get
\* the same hash from compute_cycle_hash, whatever the order of the keys of
\* the body and of its nested selfState and echoState; so a submission
\* logically equal to a record stored when it arrives is found by the hash
\* lookup.
C7_HashIgnoresKeyOrder ==
    /\ \A p, q \in Ingesting :
           SameLogical(ses[p].memory, ses[q].memory)
           => ses[p].cycle_hash = ses[q].cycle_hash
    /\ \A p \in Ingesting :
           ( /\ ses[p].matched # 0
             /\ SameLogical(ses[p].memory, memory_cycles[ses[p].matched]) )
           => ses[p].existing_by_hash = ses[p].matched

\* C8 (as claimed): the cycleHash and the signifier of every provenance row
\* are those of the record its memoryId references.
C8_LogCopiesRecordKeys ==
    \A k \in DOMAIN provenance_logs :
        LET e == provenance_logs[k]
            r == memory_cycles[e.memory_id]
        IN  e.signifier = r.signifier /\ e.cycle_hash = r.cycle_hash

\* The step ends an ingest call with the answer duplicate
DuplicateAnswered ==
    /\ Len(hist') = Len(hist) + 1
    /\ hist'[Len(hist')].kind = "ingest"
    /\ hist'[Len(hist')].status = "duplicate"

\* C9: an ingest call that arrives when a stored record has its hash or,
\* failing that, its signifier never reaches the insert; the call, unless the
\* store fails it, is answered duplicate with that record; none of its steps
\* changes the record table, and the step that answers it appends exactly one
\* provenance row, a `duplicate_ingest` that references that record.
C9_DuplicatePath ==
    /\ [](\A p \in Ingesting :
             ses[p].matched # 0
             => /\ ses[p].pc \in {"by_signifier", "dup_log"}
                /\ ses[p].pc = "dup_log" => Existing(ses[p]) = ses[p].matched)
    /\ [](\A i \in IngestCalls :
             (hist[i].matched # 0 /\ Answered(i))
             => /\ hist[i].status = "duplicate"
                /\ hist[i].memory_id = hist[i].matched)
    /\ [][\A p \in Ingesting :
             (ses[p].matched # 0 /\ ses'[p] # ses[p])
             => /\ memory_cycles' = memory_cycles
                /\ IF DuplicateAnswered
                   THEN /\ Len(provenance_logs') = Len(provenance_logs) + 1
                        /\ SubSeq(provenance_logs', 1, Len(provenance_logs))
                               = provenance_logs
                        /\ provenance_logs'[Len(provenance_logs')].event
                               = "duplicate_ingest"
                        /\ provenance_logs'[Len(provenance_logs')].memory_id
                               = ses[p].matched
                   ELSE provenance_logs' = provenance_logs
       ]_vars

\* C9 witness: a call whose submission differs from the stored record of the
\* same signifier (the hash lookup found nothing) has been answered duplicate
C9_Witness ==
    \E i \in IngestCalls :
        /\ hist[i].status = "duplicate"
        /\ hist[i].matched # 0
        /\ HashOf(hist[i].memory) # memory_cycles[hist[i].matched].cycle_hash
        /\ Len(LogsOf(hist[i].matched)) = 2

\* C10 (as claimed): an ingest of a record not in the store fails, the same
\* call is made again and is answered: the store holds one record for it and
\* is as after a single successful ingest, the record's provenance being one
\* `ingest` row.
C10_RetryIsIdempotent ==
    \A i, j \in IngestCalls :
        ( /\ j = i + 1 /\ Len(hist) = j /\ Quiet
          /\ hist[i].memory = hist[j].memory
          /\ hist[i].matched = 0
          /\ RanAlone(i) /\ RanAlone(j)
          /\ hist[i].status = "store_unavailable"
          /\ Answered(j) )
        => /\ Cardinality({r \in DOMAIN memory_cycles :
                  memory_cycles[r].signifier = hist[j].memory.signifier}) = 1
           /\ hist[j].memory_id # 0
           /\ Len(LogsOf(hist[j].memory_id)) = 1
           /\ LogsOf(hist[j].memory_id)[1].event = "ingest"

CreateCalls == {i \in DOMAIN hist : hist[i].kind = "create"}

\* A stored record has the signifier or the hash of the creation slot p is
\* about to commit
Present(p) ==
    \E r \in DOMAIN memory_cycles :
        \/ memory_cycles[r].signifier = ses[p].memory.signifier
        \/ memory_cycles[r].cycle_hash = ses[p].cycle_hash

\* The row r holds the fields of the submission m and the hash of m
RowOf(r, m) ==
    /\ r.signifier = m.signifier /\ r.t = m.t /\ r.psi_self = m.psi_self
    /\ r.sigma_echo = m.sigma_echo /\ r.glyphstream = m.glyphstream
    /\ r.ache = m.ache /\ r.drift = m.drift /\ r.entropy = m.entropy
    /\ r.xi = m.xi /\ r.cycle_hash = HashOf(m)

\* The step in which the direct creation of slot p ends
CreateEnds(p) == ses[p].pc = "create_commit" /\ ses'[p] # ses[p]

\* C11: a direct creation whose signifier or hash is present when it commits
\* is answered with the ValueError (unless the store fails it) and leaves
\* both tables as they were; one whose signifier and hash are absent is
\* stored as submitted; the provenance table is never touched.  Of two
\* direct creations of one signifier that ran concurrently and were both
\* answered, at most one is stored and the record of that signifier exists;
\* when they are the only calls made, the one that commits first is stored
\* and the other is rejected.
C11_CreateRejectsDuplicate ==
    /\ [][ \A p \in Sessions :
             CreateEnds(p) =>
               LET a == hist'[Len(hist')] IN
               /\ Len(hist') = Len(hist) + 1
               /\ a.kind = "create"
               /\ provenance_logs' = provenance_logs
               /\ Present(p) => /\ a.status \in {"value_error", "store_unavailable"}
                                /\ memory_cycles' = memory_cycles
               /\ a.status = "value_error" => Present(p)
               /\ a.status = "stored" =>
                     /\ Len(memory_cycles') = Len(memory_cycles) + 1
                     /\ SubSeq(memory_cycles', 1, Len(memory_cycles)) = memory_cycles
                     /\ RowOf(memory_cycles'[Len(memory_cycles')], ses[p].memory)
               /\ a.status = "store_unavailable" => memory_cycles' = memory_cycles ]_vars
    /\ [](\A i, j \in CreateCalls :
             ( /\ Overlapping(i, j)
               /\ Answered(i) /\ Answered(j)
               /\ hist[i].signifier = hist[j].signifier )
             => /\ ~(hist[i].status = "stored" /\ hist[j].status = "stored")
                /\ \E r \in DOMAIN memory_cycles :
                       memory_cycles[r].signifier = hist[i].signifier
                /\ (Len(hist) = 2 /\ Quiet)
                       => hist[i].status = "stored" /\ hist[j].status = "value_error")

\* Two concurrent direct creations of one signifier have ended, one stored and
\* one rejected
C11_Witness ==
    \E i, j \in CreateCalls :
        /\ Overlapping(i, j)
        /\ hist[i].signifier = hist[j].signifier
        /\ hist[i].status = "stored" /\ hist[j].status = "value_error"
        /\ Len(memory_cycles) = 1 /\ provenance_logs = << >>

\* C12: no step of any operation removes or changes a committed provenance
\* row (memory_id, event, cycle_hash, signifier, source_ip and node_id stay, in
\* the same place of the commit order), and no step removes a record: each
\* record keeps its id, signifier, cycle_hash and created_at; both tables can
\* only get longer.
C12_StoreOnlyGrows ==
    [][ /\ Len(provenance_logs') >= Len(provenance_logs)
        /\ \A k \in DOMAIN provenance_logs : provenance_logs'[k] = provenance_logs[k]
        /\ Len(memory_cycles') >= Len(memory_cycles)
        /\ \A id \in DOMAIN memory_cycles :
               /\ memory_cycles'[id].signifier = memory_cycles[id].signifier
               /\ memory_cycles'[id].cycle_hash = memory_cycles[id].cycle_hash
               /\ memory_cycles'[id].created_at = memory_cycles[id].created_at ]_vars

\* A record with an `ingest` row has since been patched: the record changed,
\* the row and the record are still there
C12_Witness ==
    \E id \in DOMAIN memory_cycles :
        /\ memory_cycles[id].updated_at # memory_cycles[id].created_at
        /\ Len(LogsOf(id)) >= 1
        /\ LogsOf(id)[1].event = "ingest"
        /\ \E i \in DOMAIN hist : hist[i].kind = "patch" /\ hist[i].status = "updated"

\* C13 (as claimed): while the store is reachable, under every interleaving
\* of ingest calls each `duplicate_ingest` row of a record that ingest
\* created comes after the record's `ingest` row in commit order, and the
\* record has at most one `ingest` row, exactly one once the call that
\* created it has been answered.
C13_IngestRowFirst ==
    (\A i \in DOMAIN hist : Answered(i))
    => \A id \in InsertedByIngest :
          LET L == LogsOf(id) IN
          /\ \A k \in DOMAIN L :
                 L[k].event = "duplicate_ingest"
                 => \E j \in 1..(k - 1) : L[j].event = "ingest"
          /\ Cardinality({k \in DOMAIN L : L[k].event = "ingest"}) <= 1
          /\ (\E i \in IngestCalls : hist[i].status = "created" /\ hist[i].memory_id = id)
                 => Cardinality({k \in DOMAIN L : L[k].event = "ingest"}) = 1

\* The row r holds the field values of the submission m, nested keys in the
\* same order
FieldsOf(r, m) ==
    /\ r.signifier = m.signifier /\ r.t = m.t /\ r.psi_self = m.psi_self
    /\ r.sigma_echo = m.sigma_echo /\ r.glyphstream = m.glyphstream
    /\ r.ache = m.ache /\ r.drift = m.drift /\ r.entropy = m.entropy
    /\ r.xi = m.xi

\* The stored row id was written by the direct or the bulk path and is the
\* submission m, field for field
CreatedAs(id, m) ==
    /\ id \in DOMAIN memory_cycles
    /\ id \notin InsertedByIngest
    /\ FieldsOf(memory_cycles[id], m)

\* C14: every row, whichever of the three write paths inserts it, is stored
\* with compute_cycle_hash of the renamed mapping of its submitted fields; so
\* an ingest call that submits, unchanged, a record that the direct or the
\* bulk path had stored when it arrived finds that record by the hash lookup,
\* inserts nothing, is answered duplicate with that record (unless the store
\* fails it) and has its `duplicate_ingest` row, which references the record.
C14_WritePathsAgree ==
    /\ [][ \A id \in DOMAIN memory_cycles' :
             id \notin DOMAIN memory_cycles
             => memory_cycles'[id].cycle_hash
                  = compute_cycle_hash(RenamedData(memory_cycles'[id])) ]_vars
    /\ [](\A p \in Ingesting :
             CreatedAs(ses[p].matched, ses[p].memory)
             => /\ ses[p].existing_by_hash = ses[p].matched
                /\ ses[p].pc \in {"by_signifier", "dup_log"})
    /\ [](\A i \in IngestCalls :
             (CreatedAs(hist[i].matched, hist[i].memory) /\ Answered(i))
             => /\ hist[i].status = "duplicate"
                /\ hist[i].memory_id = hist[i].matched
                /\ \E k \in DOMAIN provenance_logs :
                       /\ provenance_logs[k].memory_id = hist[i].matched
                       /\ provenance_logs[k].event = "duplicate_ingest"
                       /\ provenance_logs[k].cycle_hash
                            = memory_cycles[hist[i].matched].cycle_hash
                /\ Cardinality({r \in DOMAIN memory_cycles :
                       memory_cycles[r].signifier = hist[i].memory.signifier}) = 1)

\* A record stored by the direct or the bulk path has been ingested unchanged
\* and the call was answered duplicate
C14_Witness ==
    \E i \in IngestCalls :
        /\ CreatedAs(hist[i].matched, hist[i].memory)
        /\ hist[i].status = "duplicate"
        /\ \E k \in DOMAIN hist :
               k < i /\ hist[k].kind \in {"create", "bulk"} /\ hist[k].status = "stored"
        /\ Len(provenance_logs) = 1 /\ Len(memory_cycles) = 1

====
